---- MODULE Spec2Model ----
(***************************************************************************)
(* A model of the separate-chaining HashMap of src/src/dummy/mod.rs: its   *)
(* buckets and item counter, the insert / get / contains_key / remove /    *)
(* len / is_empty calls, the two-phase Entry API, the borrowing and owning  *)
(* iterators RefIter and ItemIter, and of the Flatten adaptor of            *)
(* src/src/flatten/mod.rs.  Bucket indices and in-bucket positions are 0-based   *)
(* as in the source; TLA+ sequences are 1-based, so bucket i of the source *)
(* is b[i + 1] here.  Option<T> is a sequence: None is <<>>, Some(x) is    *)
(* <<x>>.                                                                  *)
(***************************************************************************)
EXTENDS Integers, Sequences, FiniteSets, TLC

\* ---- bounds of the model ------------------------------------------------
MaxKey == 2
MaxVal == 2
MaxHash == 1
MaxItem == 2     \* the items of the sequences given to flatten are 1..MaxItem
MaxOuter == 2    \* longest outer sequence given to flatten
MaxInner == 2    \* longest inner sequence given to flatten

Keys == 1..MaxKey
Vals == 1..MaxVal
HashValues == 0..MaxHash
Items == 1..MaxItem

\* the sequences over S of length at most n
SeqsUpTo(S, n) == UNION {[1..m -> S] : m \in 0..n}

\* the outer sequences flatten is given: finite sequences of finite sequences
OuterSequences == SeqsUpTo(SeqsUpTo(Items, MaxInner), MaxOuter)

\* The hash functions of a run.  Keys are only compared for equality and hashed,
\* and every call is tried with every key, so each function from Keys to
\* HashValues behaves as the nondecreasing one it becomes when the keys are
\* renamed in the order of their hashes; only those are enumerated.
HashFunctions ==
    {h \in [Keys -> HashValues] : \A j, k \in Keys : j <= k => h[j] <= h[k]}

\* ---- program constants --------------------------------------------------
INITIAL_BUCKET_SIZE == 1

VARIABLES
    buckets,      \* HashMap.buckets : Vec<Vec<(K, V)>>
    num_items,    \* HashMap.num_items : usize
    hash,         \* the hash function of the key type (DefaultHasher), fixed per run
    entry,        \* the Entry handle that borrows the map, or NoEntry
    iter,         \* the RefIter that borrows the map, or the ItemIter that owns
                  \* the map moved into it (field map), or NoIter
    op,           \* the last completed call: its name, arguments, result, and
                  \* (insert, entry and its resolution) whether the call resized
    panicked,     \* TRUE once a call has panicked (expect / index out of range)
    yielded,      \* the items the next() calls of the live iterator have returned
    last_run,     \* Some(items of the finished iteration the live one directly follows)
    ref,          \* the reference key -> Option<value> map the calls are compared to
    outer,        \* Flatten.outer : what the outer iterator has not yielded yet
    inner,        \* Flatten.inner : Option<what the inner iterator has not yielded yet>
    source        \* the outer sequence flatten() was called on

vars == <<buckets, num_items, hash, entry, iter, op, panicked, yielded, last_run, ref,
          outer, inner, source>>

\* ---- Option and Vec helpers ---------------------------------------------
None == <<>>
Some(x) == <<x>>
unwrap(o) == o[1]

NoEntry == [tag |-> "NoEntry"]
NoIter == [tag |-> "NoIter"]

\* s[i] for a 0-based i
at0(s, i) == s[i + 1]

\* Vec indexing s[i] panics unless i < s.len()
in_range(s, i) == i < Len(s)

\* Vec::push
push(s, x) == Append(s, x)

\* Iterator::position(|(ekey, _)| ekey == key) over a bucket: the 0-based
\* position of the first pair with that key, as an Option
RECURSIVE positionFrom(_, _, _)
positionFrom(bucket, key, i) ==
    IF i >= Len(bucket) THEN None
    ELSE IF at0(bucket, i)[1] = key THEN Some(i)
    ELSE positionFrom(bucket, key, i + 1)

\* position that starts the scan at the second pair
position_skip_first(bucket, key) == positionFrom(bucket, key, 1)

position(bucket, key) == positionFrom(bucket, key, 0)

\* swap_remove that forgets the swap: the last element is dropped, not element i
swap_remove_no_swap(s, i) == SubSeq(s, 1, Len(s) - 1)

\* Vec::swap_remove(i): the last element takes the place of element i
swap_remove(s, i) ==
    LET last == Len(s) - 1
        moved == [s EXCEPT ![i + 1] = s[last + 1]]
    IN  SubSeq(moved, 1, last)

\* ---- HashMap ------------------------------------------------------------
\* HashMap::new
new == [buckets |-> <<>>, num_items |-> 0]

\* get_bucket_index without the is_empty() early return
get_bucket_index_unchecked(b, key) ==
    Some(IF Len(b) = 0 THEN 0 ELSE hash[key] % Len(b))

\* HashMap::get_bucket_index
get_bucket_index(b, key) ==
    IF Len(b) = 0 THEN None
    ELSE Some(hash[key] % Len(b))

\* the pairs of all buckets in drain order: bucket by bucket, front to back
RECURSIVE drain_all(_)
drain_all(b) ==
    IF Len(b) = 0 THEN <<>> ELSE Head(b) \o drain_all(Tail(b))

\* rehash with the bucket index taken modulo the initial size, not the new capacity
RECURSIVE rehash_initial_size(_, _, _)
rehash_initial_size(pairs, new_buckets, capacity) ==
    IF Len(pairs) = 0 THEN new_buckets
    ELSE LET bucket_index == hash[Head(pairs)[1]] % INITIAL_BUCKET_SIZE
         IN  rehash_initial_size(Tail(pairs),
                    [new_buckets EXCEPT ![bucket_index + 1] = push(@, Head(pairs))],
                    capacity)

\* the loop of HashMap::resize: each drained pair is pushed to its new bucket
RECURSIVE rehash(_, _, _)
rehash(pairs, new_buckets, capacity) ==
    IF Len(pairs) = 0 THEN new_buckets
    ELSE LET bucket_index == hash[Head(pairs)[1]] % capacity
         IN  rehash(Tail(pairs),
                    [new_buckets EXCEPT ![bucket_index + 1] = push(@, Head(pairs))],
                    capacity)

\* resize to as many buckets as there are items, without the doubling
resize_no_doubling(m) ==
    LET capacity == IF m.num_items = 0 THEN INITIAL_BUCKET_SIZE ELSE m.num_items
        new_buckets == [i \in 1..capacity |-> <<>>]
    IN  [buckets |-> rehash(drain_all(m.buckets), new_buckets, capacity),
         num_items |-> m.num_items]

\* HashMap::resize
resize(m) ==
    LET capacity == IF m.num_items = 0 THEN INITIAL_BUCKET_SIZE ELSE 2 * m.num_items
        new_buckets == [i \in 1..capacity |-> <<>>]
    IN  [buckets |-> rehash(drain_all(m.buckets), new_buckets, capacity),
         num_items |-> m.num_items]

\* needs_resize that only looks for the table without buckets
needs_resize_only_empty(m) == Len(m.buckets) = 0

\* needs_resize without the check for the table without buckets
needs_resize_no_empty_check(m) == m.num_items > (3 * Len(m.buckets)) \div 4

\* needs_resize that waits until there are more items than buckets
needs_resize_when_full(m) == Len(m.buckets) = 0 \/ m.num_items > Len(m.buckets)

\* the condition insert and entry resize under
needs_resize(m) ==
    Len(m.buckets) = 0 \/ m.num_items > (3 * Len(m.buckets)) \div 4

\* HashMap::is_empty
is_empty(m) == m.num_items = 0

\* HashMap::len
len(m) == m.num_items

\* insert_replace that counts the overwritten key as a new item
insert_replace_counts(m, bucket_index, at, key, value) ==
    [buckets |-> [m.buckets EXCEPT ![bucket_index + 1][at + 1] = <<key, value>>],
     num_items |-> m.num_items + 1,
     ret |-> Some(at0(at0(m.buckets, bucket_index), at)[2]),
     panic |-> FALSE]

\* insert_replace that returns the new value instead of the replaced one
insert_replace_returns_new(m, bucket_index, at, key, value) ==
    [buckets |-> [m.buckets EXCEPT ![bucket_index + 1][at + 1] = <<key, value>>],
     num_items |-> m.num_items,
     ret |-> Some(value),
     panic |-> FALSE]

\* insert_replace that takes the old pair out and pushes the new one at the back
insert_replace_moves_to_back(m, bucket_index, at, key, value) ==
    LET bucket == at0(m.buckets, bucket_index)
        rest == SubSeq(bucket, 1, at) \o SubSeq(bucket, at + 2, Len(bucket))
    IN  [buckets |-> [m.buckets EXCEPT ![bucket_index + 1] = push(rest, <<key, value>>)],
         num_items |-> m.num_items,
         ret |-> Some(at0(bucket, at)[2]),
         panic |-> FALSE]

\* HashMap::insert, the arm that finds the key: mem::replace(eval, value)
insert_replace(m, bucket_index, at, key, value) ==
    [buckets |-> [m.buckets EXCEPT ![bucket_index + 1][at + 1] = <<key, value>>],
     num_items |-> m.num_items,
     ret |-> Some(at0(at0(m.buckets, bucket_index), at)[2]),
     panic |-> FALSE]

\* HashMap::insert, the arm that does not find the key
insert_push(m, bucket_index, key, value) ==
    [buckets |-> [m.buckets EXCEPT ![bucket_index + 1] = push(@, <<key, value>>)],
     num_items |-> m.num_items + 1,
     ret |-> None,
     panic |-> FALSE]

\* HashMap::insert
insert(m, key, value) ==
    LET m1 == IF needs_resize(m) THEN resize(m) ELSE m
        found == get_bucket_index(m1.buckets, key)
    IN  IF found = None
        THEN \* expect("bucket is empty handled above") fails
             [buckets |-> m1.buckets, num_items |-> m1.num_items,
              ret |-> None, panic |-> TRUE]
        ELSE IF ~in_range(m1.buckets, unwrap(found))
        THEN \* self.buckets[bucket_index] is out of range
             [buckets |-> m1.buckets, num_items |-> m1.num_items,
              ret |-> None, panic |-> TRUE]
        ELSE LET bucket_index == unwrap(found)
                 pos == position(at0(m1.buckets, bucket_index), key)
             IN  IF pos # None
                 THEN insert_replace(m1, bucket_index, unwrap(pos), key, value)
                 ELSE insert_push(m1, bucket_index, key, value)

\* HashMap::get
get(m, key) ==
    LET found == get_bucket_index(m.buckets, key)
    IN  IF found = None THEN [ret |-> None, panic |-> FALSE]
        ELSE IF ~in_range(m.buckets, unwrap(found))
        THEN [ret |-> None, panic |-> TRUE]
        ELSE LET bucket == at0(m.buckets, unwrap(found))
                 pos == position(bucket, key)
             IN  [ret |-> IF pos = None THEN None ELSE Some(at0(bucket, unwrap(pos))[2]),
                  panic |-> FALSE]

\* HashMap::contains_key
contains_key(m, key) ==
    LET r == get(m, key) IN [ret |-> r.ret # None, panic |-> r.panic]

\* remove_found that rehashes the table after it took the pair out
remove_found_shrinks(m, bucket_index, i) ==
    LET taken_out == [buckets |-> [m.buckets EXCEPT ![bucket_index + 1] =
                                      swap_remove(@, i)],
                      num_items |-> m.num_items - 1]
    IN  [buckets |-> resize(taken_out).buckets,
         num_items |-> m.num_items - 1,
         ret |-> Some(at0(at0(m.buckets, bucket_index), i)[2]),
         panic |-> FALSE]

\* HashMap::remove, once the pair is found at position i of its bucket
remove_found(m, bucket_index, i) ==
    [buckets |-> [m.buckets EXCEPT ![bucket_index + 1] = swap_remove(@, i)],
     num_items |-> m.num_items - 1,
     ret |-> Some(at0(at0(m.buckets, bucket_index), i)[2]),
     panic |-> FALSE]

\* HashMap::remove
remove(m, key) ==
    LET found == get_bucket_index(m.buckets, key)
        unchanged == [buckets |-> m.buckets, num_items |-> m.num_items,
                      ret |-> None, panic |-> FALSE]
    IN  IF found = None THEN unchanged
        ELSE IF ~in_range(m.buckets, unwrap(found))
        THEN [unchanged EXCEPT !.panic = TRUE]
        ELSE LET bucket_index == unwrap(found)
                 bucket == at0(m.buckets, bucket_index)
                 i == position(bucket, key)
             IN  IF i = None THEN unchanged
                 ELSE IF m.num_items = 0
                 THEN \* num_items -= 1 overflows
                      [unchanged EXCEPT !.panic = TRUE]
                 ELSE remove_found(m, bucket_index, unwrap(i))

\* entry that computes the bucket index before the resize check
entry_of_index_before_resize(m, key) ==
    LET found == get_bucket_index(m.buckets, key)
        m1 == IF needs_resize(m) THEN resize(m) ELSE m
    IN  IF found = None
        THEN [buckets |-> m1.buckets, num_items |-> m1.num_items,
              entry |-> NoEntry, panic |-> TRUE]
        ELSE LET bucket_index == unwrap(found)
                 pos == position(at0(m1.buckets, bucket_index), key)
             IN  [buckets |-> m1.buckets, num_items |-> m1.num_items,
                  entry |-> IF pos # None
                            THEN [tag |-> "Occupied", bucket_index |-> bucket_index,
                                  at |-> unwrap(pos)]
                            ELSE [tag |-> "Vacant", key |-> key,
                                  bucket_index |-> bucket_index],
                  panic |-> FALSE]

\* HashMap::entry
entry_of(m, key) ==
    LET m1 == IF needs_resize(m) THEN resize(m) ELSE m
        found == get_bucket_index(m1.buckets, key)
    IN  IF found = None
        THEN [buckets |-> m1.buckets, num_items |-> m1.num_items,
              entry |-> NoEntry, panic |-> TRUE]
        ELSE IF ~in_range(m1.buckets, unwrap(found))
        THEN [buckets |-> m1.buckets, num_items |-> m1.num_items,
              entry |-> NoEntry, panic |-> TRUE]
        ELSE LET bucket_index == unwrap(found)
                 pos == position(at0(m1.buckets, bucket_index), key)
             IN  [buckets |-> m1.buckets, num_items |-> m1.num_items,
                  entry |-> IF pos # None
                            THEN [tag |-> "Occupied", bucket_index |-> bucket_index,
                                  at |-> unwrap(pos)]
                            ELSE [tag |-> "Vacant", key |-> key,
                                  bucket_index |-> bucket_index],
                  panic |-> FALSE]

\* VacantEntry::insert that does not count the new pair
VacantEntry_insert_no_count(m, e, val) ==
    IF ~in_range(m.buckets, e.bucket_index)
    THEN [buckets |-> m.buckets, num_items |-> m.num_items, ret |-> None, panic |-> TRUE]
    ELSE [buckets |-> [m.buckets EXCEPT ![e.bucket_index + 1] = push(@, <<e.key, val>>)],
          num_items |-> m.num_items,
          ret |-> Some(val),
          panic |-> FALSE]

\* VacantEntry::insert; the result is the value the returned reference denotes
VacantEntry_insert(m, e, val) ==
    IF ~in_range(m.buckets, e.bucket_index)
    THEN [buckets |-> m.buckets, num_items |-> m.num_items, ret |-> None, panic |-> TRUE]
    ELSE LET pushed == [m.buckets EXCEPT ![e.bucket_index + 1] = push(@, <<e.key, val>>)]
             bucket == at0(pushed, e.bucket_index)
         IN  [buckets |-> pushed,
              num_items |-> m.num_items + 1,
              ret |-> Some(at0(bucket, Len(bucket) - 1)[2]),
              panic |-> FALSE]

\* the Occupied arm of or_insert / or_insert_with: &mut e.entry.1
OccupiedEntry_value(m, e) ==
    [buckets |-> m.buckets, num_items |-> m.num_items,
     ret |-> Some(at0(at0(m.buckets, e.bucket_index), e.at)[2]),
     panic |-> FALSE]

\* or_insert that stores the default over the value of an Occupied entry
or_insert_overwrites(m, e, default) ==
    IF e.tag = "Occupied"
    THEN [buckets |-> [m.buckets EXCEPT ![e.bucket_index + 1][e.at + 1][2] = default],
          num_items |-> m.num_items, ret |-> Some(default), panic |-> FALSE]
    ELSE VacantEntry_insert(m, e, default)

\* Entry::or_insert
or_insert(m, e, default) ==
    IF e.tag = "Occupied" THEN OccupiedEntry_value(m, e)
    ELSE VacantEntry_insert(m, e, default)

\* or_insert_with that calls the supplier before matching on the entry
or_insert_with_eager(m, e, produced) ==
    IF e.tag = "Occupied"
    THEN [r |-> OccupiedEntry_value(m, e), calls |-> 1]
    ELSE [r |-> VacantEntry_insert(m, e, produced), calls |-> 1]

\* Entry::or_insert_with: the supplier returns `produced`; calls counts its invocations
or_insert_with(m, e, produced) ==
    IF e.tag = "Occupied"
    THEN [r |-> OccupiedEntry_value(m, e), calls |-> 0]
    ELSE [r |-> VacantEntry_insert(m, e, produced), calls |-> 1]

\* RefIter::next that does not reset `at` when it moves to the next bucket
RECURSIVE RefIter_next_keeps_at(_, _, _)
RefIter_next_keeps_at(b, bucket_index, at) ==
    IF bucket_index >= Len(b)
    THEN [bucket_index |-> bucket_index, at |-> at, ret |-> None]
    ELSE IF at < Len(at0(b, bucket_index))
    THEN [bucket_index |-> bucket_index, at |-> at + 1,
          ret |-> Some(at0(at0(b, bucket_index), at))]
    ELSE RefIter_next_keeps_at(b, bucket_index + 1, at)

\* RefIter::next: the loop, from cursor (bucket_index, at)
RECURSIVE RefIter_next(_, _, _)
RefIter_next(b, bucket_index, at) ==
    IF bucket_index >= Len(b)
    THEN [bucket_index |-> bucket_index, at |-> at, ret |-> None]
    ELSE IF at < Len(at0(b, bucket_index))
    THEN [bucket_index |-> bucket_index, at |-> at + 1,
          ret |-> Some(at0(at0(b, bucket_index), at))]
    ELSE RefIter_next(b, bucket_index + 1, 0)

\* IntoIterator for &HashMap
into_iter_ref == [tag |-> "RefIter", bucket_index |-> 0, at |-> 0]

\* Vec::pop on a non-empty bucket: the rest and the last element
pop(bucket) == [rest |-> SubSeq(bucket, 1, Len(bucket) - 1), ret |-> bucket[Len(bucket)]]

\* ItemIter::next that takes the first pair of the bucket instead of the last
RECURSIVE ItemIter_next_takes_front(_, _)
ItemIter_next_takes_front(m, bucket_index) ==
    IF bucket_index >= Len(m.buckets)
    THEN [map |-> m, bucket_index |-> bucket_index, ret |-> None]
    ELSE IF Len(at0(m.buckets, bucket_index)) > 0
    THEN [map |-> [m EXCEPT !.buckets[bucket_index + 1] = Tail(@)],
          bucket_index |-> bucket_index,
          ret |-> Some(Head(at0(m.buckets, bucket_index)))]
    ELSE ItemIter_next_takes_front(m, bucket_index + 1)

\* ItemIter::next: the loop, on the map the iterator owns, from bucket_index;
\* bucket.pop() shortens the bucket, and nothing writes map.num_items
RECURSIVE ItemIter_next(_, _)
ItemIter_next(m, bucket_index) ==
    IF bucket_index >= Len(m.buckets)
    THEN [map |-> m, bucket_index |-> bucket_index, ret |-> None]
    ELSE IF Len(at0(m.buckets, bucket_index)) > 0
    THEN [map |-> [m EXCEPT !.buckets[bucket_index + 1] = pop(@).rest],
          bucket_index |-> bucket_index,
          ret |-> Some(pop(at0(m.buckets, bucket_index)).ret)]
    ELSE ItemIter_next(m, bucket_index + 1)

\* IntoIterator for HashMap: the map is moved into the iterator
into_iter(m) == [tag |-> "ItemIter", map |-> m, bucket_index |-> 0]

\* ---- Flatten -------------------------------------------------------------
\* flatten(iter) = Flatten::new(iter)
flatten(o) == [outer |-> o, inner |-> None]

\* Flatten::next that gives up at an inner sequence that yields nothing
RECURSIVE Flatten_next_stops_at_empty(_, _)
Flatten_next_stops_at_empty(o, inn) ==
    IF inn # None /\ unwrap(inn) # <<>>
    THEN [outer |-> o, inner |-> Some(Tail(unwrap(inn))), ret |-> Some(Head(unwrap(inn)))]
    ELSE IF o = <<>>
    THEN [outer |-> o, inner |-> None, ret |-> None]
    ELSE IF Head(o) = <<>>
    THEN [outer |-> Tail(o), inner |-> None, ret |-> None]
    ELSE Flatten_next_stops_at_empty(Tail(o), Some(Head(o)))

\* Flatten::next: the loop.  An iterator over a sequence is what is left of it:
\* next() takes the head.  `?` returns None when outer.next() is None.
RECURSIVE Flatten_next(_, _)
Flatten_next(o, inn) ==
    IF inn # None /\ unwrap(inn) # <<>>
    THEN [outer |-> o, inner |-> Some(Tail(unwrap(inn))), ret |-> Some(Head(unwrap(inn)))]
    ELSE IF o = <<>>
    THEN [outer |-> o, inner |-> None, ret |-> None]
    ELSE Flatten_next(Tail(o), Some(Head(o)))

\* ---- the state machine ---------------------------------------------------
cur == [buckets |-> buckets, num_items |-> num_items]

Init ==
    /\ buckets = new.buckets
    /\ num_items = new.num_items
    /\ hash \in HashFunctions
    /\ entry = NoEntry
    /\ iter = NoIter
    /\ op = [name |-> "new"]
    /\ panicked = FALSE
    /\ yielded = <<>>
    /\ last_run = None
    /\ ref = [k \in Keys |-> None]
    /\ outer = <<>>
    /\ inner = None
    /\ source = <<>>

\* no handle borrows the map and no call has panicked
Idle == entry = NoEntry /\ iter = NoIter /\ ~panicked

Insert(k, v) ==
    /\ Idle
    /\ LET r == insert(cur, k, v)
       IN  /\ buckets' = r.buckets
           /\ num_items' = r.num_items
           /\ panicked' = r.panic
           /\ op' = [name |-> "insert", key |-> k, val |-> v, ret |-> r.ret,
                     resized |-> needs_resize(cur)]
    /\ ref' = [ref EXCEPT ![k] = Some(v)]
    /\ last_run' = None
    /\ UNCHANGED <<hash, entry, iter, yielded>>
    /\ UNCHANGED <<outer, inner, source>>

Get(k) ==
    /\ Idle
    /\ LET r == get(cur, k)
       IN  /\ op' = [name |-> "get", key |-> k, ret |-> r.ret]
           /\ panicked' = r.panic
    /\ last_run' = None
    /\ UNCHANGED <<buckets, num_items, hash, entry, iter, yielded, ref>>
    /\ UNCHANGED <<outer, inner, source>>

ContainsKey(k) ==
    /\ Idle
    /\ LET r == contains_key(cur, k)
       IN  /\ op' = [name |-> "contains_key", key |-> k, ret |-> r.ret]
           /\ panicked' = r.panic
    /\ last_run' = None
    /\ UNCHANGED <<buckets, num_items, hash, entry, iter, yielded, ref>>
    /\ UNCHANGED <<outer, inner, source>>

Remove(k) ==
    /\ Idle
    /\ LET r == remove(cur, k)
       IN  /\ buckets' = r.buckets
           /\ num_items' = r.num_items
           /\ panicked' = r.panic
           /\ op' = [name |-> "remove", key |-> k, ret |-> r.ret]
    /\ ref' = [ref EXCEPT ![k] = None]
    /\ last_run' = None
    /\ UNCHANGED <<hash, entry, iter, yielded>>
    /\ UNCHANGED <<outer, inner, source>>

LenCall ==
    /\ ~panicked /\ entry = NoEntry /\ iter.tag # "ItemIter"
    /\ op' = [name |-> "len", ret |-> len(cur)]
    /\ UNCHANGED <<buckets, num_items, hash, entry, iter, panicked, yielded, last_run, ref>>
    /\ UNCHANGED <<outer, inner, source>>

IsEmptyCall ==
    /\ ~panicked /\ entry = NoEntry /\ iter.tag # "ItemIter"
    /\ op' = [name |-> "is_empty", ret |-> is_empty(cur)]
    /\ UNCHANGED <<buckets, num_items, hash, entry, iter, panicked, yielded, last_run, ref>>
    /\ UNCHANGED <<outer, inner, source>>

EntryCall(k) ==
    /\ Idle
    /\ LET r == entry_of(cur, k)
       IN  /\ buckets' = r.buckets
           /\ num_items' = r.num_items
           /\ panicked' = r.panic
           /\ entry' = r.entry
    /\ op' = [name |-> "entry", key |-> k, resized |-> needs_resize(cur)]
    /\ last_run' = None
    /\ UNCHANGED <<hash, iter, yielded, ref>>
    /\ UNCHANGED <<outer, inner, source>>

\* the reference map after entry(k).or_insert(d): d is stored only if k was absent
ref_or_insert(k, d) == IF ref[k] = None THEN [ref EXCEPT ![k] = Some(d)] ELSE ref

OrInsert(d) ==
    /\ ~panicked /\ entry # NoEntry
    /\ LET r == or_insert(cur, entry, d)
       IN  /\ buckets' = r.buckets
           /\ num_items' = r.num_items
           /\ panicked' = r.panic
           /\ op' = [name |-> "or_insert", key |-> op.key, val |-> d, ret |-> r.ret,
                     resized |-> op.resized]
    /\ entry' = NoEntry
    /\ ref' = ref_or_insert(op.key, d)
    /\ last_run' = None
    /\ UNCHANGED <<hash, iter, yielded>>
    /\ UNCHANGED <<outer, inner, source>>

OrInsertWith(d) ==
    /\ ~panicked /\ entry # NoEntry
    /\ LET w == or_insert_with(cur, entry, d)
       IN  /\ buckets' = w.r.buckets
           /\ num_items' = w.r.num_items
           /\ panicked' = w.r.panic
           /\ op' = [name |-> "or_insert_with", key |-> op.key, val |-> d,
                     ret |-> w.r.ret, calls |-> w.calls, resized |-> op.resized]
    /\ entry' = NoEntry
    /\ ref' = ref_or_insert(op.key, d)
    /\ last_run' = None
    /\ UNCHANGED <<hash, iter, yielded>>
    /\ UNCHANGED <<outer, inner, source>>

\* a caller that matches on the Entry and calls VacantEntry::insert itself
VacantInsert(d) ==
    /\ ~panicked /\ entry.tag = "Vacant"
    /\ LET r == VacantEntry_insert(cur, entry, d)
       IN  /\ buckets' = r.buckets
           /\ num_items' = r.num_items
           /\ panicked' = r.panic
           /\ op' = [name |-> "vacant_insert", key |-> op.key, val |-> d, ret |-> r.ret,
                     resized |-> op.resized]
    /\ entry' = NoEntry
    /\ ref' = ref_or_insert(op.key, d)
    /\ last_run' = None
    /\ UNCHANGED <<hash, iter, yielded>>
    /\ UNCHANGED <<outer, inner, source>>

\* the Entry is dropped unresolved; the borrow of the map ends
DropEntry ==
    /\ ~panicked /\ entry # NoEntry
    /\ entry' = NoEntry
    /\ op' = [name |-> "drop_entry", key |-> op.key]
    /\ last_run' = None
    /\ UNCHANGED <<buckets, num_items, hash, iter, panicked, yielded, ref>>
    /\ UNCHANGED <<outer, inner, source>>

IntoIterRef ==
    /\ Idle
    /\ iter' = into_iter_ref
    /\ yielded' = <<>>
    /\ op' = [name |-> "into_iter"]
    /\ UNCHANGED <<buckets, num_items, hash, entry, panicked, last_run, ref>>
    /\ UNCHANGED <<outer, inner, source>>

RefIterNext ==
    /\ ~panicked /\ iter.tag = "RefIter"
    /\ LET r == RefIter_next(buckets, iter.bucket_index, iter.at)
       IN  /\ iter' = [iter EXCEPT !.bucket_index = r.bucket_index, !.at = r.at]
           /\ op' = [name |-> "next", ret |-> r.ret]
           /\ yielded' = IF r.ret = None THEN yielded ELSE Append(yielded, unwrap(r.ret))
    /\ UNCHANGED <<buckets, num_items, hash, entry, panicked, last_run, ref>>
    /\ UNCHANGED <<outer, inner, source>>

\* the RefIter is dropped; the borrow of the map ends
DropRefIter ==
    /\ ~panicked /\ iter.tag = "RefIter"
    /\ iter' = NoIter
    /\ yielded' = <<>>
    /\ last_run' = IF op.name = "next" /\ op.ret = None THEN Some(yielded) ELSE None
    /\ op' = [name |-> "drop_iter"]
    /\ UNCHANGED <<buckets, num_items, hash, entry, panicked, ref>>
    /\ UNCHANGED <<outer, inner, source>>

\* into_iter(self) moves the map into an ItemIter. The binding moved from can
\* not be used again (Idle stays false): buckets and num_items keep the table
\* as it was when it was moved, and the table being drained is iter.map.
IntoIterOwned ==
    /\ Idle
    /\ iter' = into_iter(cur)
    /\ yielded' = <<>>
    /\ last_run' = None
    /\ op' = [name |-> "into_iter_owned"]
    /\ UNCHANGED <<buckets, num_items, hash, entry, panicked, ref>>
    /\ UNCHANGED <<outer, inner, source>>

ItemIterNext ==
    /\ ~panicked /\ iter.tag = "ItemIter"
    /\ LET r == ItemIter_next(iter.map, iter.bucket_index)
       IN  /\ iter' = [iter EXCEPT !.map = r.map, !.bucket_index = r.bucket_index]
           /\ op' = [name |-> "next_owned", ret |-> r.ret]
           /\ yielded' = IF r.ret = None THEN yielded ELSE Append(yielded, unwrap(r.ret))
    /\ UNCHANGED <<buckets, num_items, hash, entry, panicked, last_run, ref>>
    /\ UNCHANGED <<outer, inner, source>>

Next ==
    \/ \E k \in Keys, v \in Vals : Insert(k, v)
    \/ \E k \in Keys : Get(k)
    \/ \E k \in Keys : ContainsKey(k)
    \/ \E k \in Keys : Remove(k)
    \/ LenCall
    \/ IsEmptyCall
    \/ \E k \in Keys : EntryCall(k)
    \/ \E d \in Vals : OrInsert(d)
    \/ \E d \in Vals : OrInsertWith(d)
    \/ \E d \in Vals : VacantInsert(d)
    \/ DropEntry
    \/ IntoIterRef
    \/ RefIterNext
    \/ DropRefIter
    \/ IntoIterOwned
    \/ ItemIterNext

Spec == Init /\ [][Next]_vars

\* a caller that builds a table with the calls that change it and then consumes
\* it in a for loop, which keeps calling next() on the ItemIter until the end
\* (the reading calls and the borrowing iteration leave the table as it is)
NextOwned ==
    \/ \E k \in Keys, v \in Vals : Insert(k, v)
    \/ \E k \in Keys : Remove(k)
    \/ \E k \in Keys : EntryCall(k)
    \/ \E d \in Vals : OrInsert(d)
    \/ \E d \in Vals : OrInsertWith(d)
    \/ \E d \in Vals : VacantInsert(d)
    \/ DropEntry
    \/ IntoIterOwned
    \/ ItemIterNext

SpecOwned == Init /\ [][NextOwned]_vars /\ WF_vars(ItemIterNext)

\* a program that calls flatten on an outer sequence and then next() on it
InitFlatten ==
    /\ source \in OuterSequences
    /\ outer = flatten(source).outer
    /\ inner = flatten(source).inner
    /\ op = [name |-> "flatten"]
    /\ yielded = <<>>
    /\ buckets = new.buckets
    /\ num_items = new.num_items
    /\ hash = [k \in Keys |-> 0]
    /\ entry = NoEntry
    /\ iter = NoIter
    /\ panicked = FALSE
    /\ last_run = None
    /\ ref = [k \in Keys |-> None]

FlattenNext ==
    /\ LET r == Flatten_next(outer, inner)
       IN  /\ outer' = r.outer
           /\ inner' = r.inner
           /\ op' = [name |-> "flatten_next", ret |-> r.ret]
           /\ yielded' = IF r.ret = None THEN yielded ELSE Append(yielded, unwrap(r.ret))
    /\ UNCHANGED <<buckets, num_items, hash, entry, iter, panicked, last_run, ref, source>>

SpecFlatten == InitFlatten /\ [][FlattenNext]_vars

\* the calls of a caller that only inserts (and reads the length)
NextInsert ==
    \/ \E k \in Keys, v \in Vals : Insert(k, v)
    \/ LenCall
    \/ IsEmptyCall

SpecInsert == Init /\ [][NextInsert]_vars

\* ---- what the table stores, read off the buckets ---------------------------
\* the pairs stored anywhere in the buckets
Pairs(b) == {drain_all(b)[i] : i \in 1..Len(drain_all(b))}

\* key k is stored in some bucket
stored(b, k) == \E p \in Pairs(b) : p[1] = k

\* the value stored with a stored key
value_of(b, k) == (CHOOSE p \in Pairs(b) : p[1] = k)[2]

\* the keys other than k that are stored
others(b, k) == {j \in Keys : j # k /\ stored(b, j)}

nxt == [buckets |-> buckets', num_items |-> num_items']

\* ---- C1 -------------------------------------------------------------------
\* C1: after any sequence of insert, remove and entry(k).or_insert(d) calls, for
\* every hash function, get(k) is the value the reference map holds for k: the
\* value last assigned by an insert or stored by an or_insert that found k absent,
\* absent if k was removed since or never stored; resizes do not change this.
C1_GetRefinesMap ==
    /\ ~panicked
    /\ \A k \in Keys : get(cur, k) = [ret |-> ref[k], panic |-> FALSE]

\* a key was removed from a table that has been rehashed to 4 buckets while
\* another key is still stored
C1_Witness ==
    /\ op.name = "remove" /\ op.ret # None
    /\ Len(buckets) = 4 /\ num_items = 1
    /\ \E i \in 2..4 : Len(buckets[i]) = 1

\* ---- C2 -------------------------------------------------------------------
\* C2: after any sequence of insert calls on a new table, len() is the number of
\* distinct keys inserted, and is_empty() is true exactly when len() is 0.
C2_LenCountsDistinctKeys ==
    LET inserted == {k \in Keys : ref[k] # None}
    IN  /\ len(cur) = Cardinality(inserted)
        /\ is_empty(cur) <=> (len(cur) = 0)
        /\ op.name = "len" => op.ret = Cardinality(inserted)
        /\ op.name = "is_empty" => (op.ret <=> Cardinality(inserted) = 0)

\* len() was called after a key was inserted twice and another key once
C2_Witness ==
    /\ op.name = "len" /\ op.ret = 2
    /\ Len(buckets) = 4

\* ---- C3 -------------------------------------------------------------------
\* C3: insert(k, v2) where k is stored with v1 returns Some(v1), leaves
\* get(k) = Some(v2) and len() unchanged; insert(k, v) where k is not stored
\* returns None, leaves get(k) = Some(v) and adds exactly 1 to len(); with or
\* without a resize in the call.
C3_InsertStep ==
    (op'.name = "insert") =>
        LET k == op'.key
            v == op'.val
        IN  /\ ~panicked'
            /\ get(nxt, k) = [ret |-> Some(v), panic |-> FALSE]
            /\ IF stored(buckets, k)
               THEN op'.ret = Some(value_of(buckets, k)) /\ len(nxt) = len(cur)
               ELSE op'.ret = None /\ len(nxt) = len(cur) + 1

C3_Insert == [][C3_InsertStep]_vars

\* an insert that resized the table replaced a value by a different one
C3_Witness ==
    /\ op.name = "insert" /\ op.ret # None /\ op.ret # Some(op.val)
    /\ Len(buckets) = 4 /\ num_items = 2

\* ---- C4 -------------------------------------------------------------------
\* C4: remove(k) of a stored key returns Some of the value stored for k, takes
\* exactly 1 from len(), leaves get(k) absent and contains_key(k) false, and
\* every other stored key keeps its value.
C4_RemoveStep ==
    (op'.name = "remove" /\ stored(buckets, op'.key)) =>
        LET k == op'.key
        IN  /\ ~panicked'
            /\ op'.ret = Some(value_of(buckets, k))
            /\ len(nxt) = len(cur) - 1
            /\ get(nxt, k) = [ret |-> None, panic |-> FALSE]
            /\ contains_key(nxt, k) = [ret |-> FALSE, panic |-> FALSE]
            /\ \A j \in others(buckets, k) :
                   get(nxt, j) = [ret |-> Some(value_of(buckets, j)), panic |-> FALSE]

C4_Remove == [][C4_RemoveStep]_vars

\* a key was removed from a bucket that held two pairs
C4_Witness ==
    /\ op.name = "remove" /\ op.ret # None
    /\ num_items = 1
    /\ \E i \in 1..Len(buckets) :
           /\ Len(buckets[i]) = 1
           /\ hash[op.key] % Len(buckets) = i - 1

\* ---- C5 -------------------------------------------------------------------
\* C5: for a key that is not stored, get returns absent, contains_key false and
\* remove None, without a panic, and the buckets and num_items are left as they
\* were; so also on the new table with zero buckets.
C5_AbsentStep ==
    (op'.name \in {"get", "contains_key", "remove"} /\ ~stored(buckets, op'.key)) =>
        /\ ~panicked'
        /\ op'.ret = (IF op'.name = "contains_key" THEN FALSE ELSE None)
        /\ buckets' = buckets
        /\ num_items' = num_items

C5_Absent == [][C5_AbsentStep]_vars

\* remove of a key that is not stored was called on the table with zero buckets
C5_Witness ==
    /\ op.name = "remove" /\ op.ret = None
    /\ Len(buckets) = 0 /\ num_items = 0 /\ ~panicked

\* ---- C6 -------------------------------------------------------------------
\* C6: entry(k).or_insert(d): if k is not stored, the table then stores (k, d),
\* len() has grown by exactly 1 and get(k) returns d; if k is stored with v, the
\* returned reference denotes v, v is still stored and len() is unchanged. All
\* other keys keep their values, across the resize of entry() too.
C6_EntryStep ==
    (op'.name = "entry") =>
        /\ ~panicked'
        /\ len(nxt) = len(cur)
        /\ Pairs(buckets') = Pairs(buckets)
        /\ (entry'.tag = "Vacant") <=> ~stored(buckets, op'.key)

C6_OrInsertStep ==
    (op'.name = "or_insert") =>
        LET k == op'.key
            d == op'.val
        IN  /\ ~panicked'
            /\ IF ~stored(buckets, k)
               THEN /\ Pairs(buckets') = Pairs(buckets) \cup {<<k, d>>}
                    /\ len(nxt) = len(cur) + 1
                    /\ get(nxt, k) = [ret |-> Some(d), panic |-> FALSE]
                    /\ op'.ret = Some(d)
               ELSE /\ op'.ret = Some(value_of(buckets, k))
                    /\ Pairs(buckets') = Pairs(buckets)
                    /\ len(nxt) = len(cur)
            /\ \A j \in others(buckets, k) :
                   get(nxt, j) = [ret |-> Some(value_of(buckets, j)), panic |-> FALSE]

C6_EntryOrInsert == [][C6_EntryStep /\ C6_OrInsertStep]_vars

\* or_insert found the key stored with another value than the default, through
\* an entry() call that resized the table
C6_Witness ==
    /\ op.name = "or_insert" /\ op.resized
    /\ op.ret # Some(op.val)
    /\ num_items = 2

\* ---- C7 -------------------------------------------------------------------
\* C7: entry(k).or_insert_with(f) calls f exactly once when k is not stored (the
\* entry is Vacant) and not at all when k is stored (the entry is Occupied).
C7_SupplierStep ==
    (op'.name = "or_insert_with") =>
        /\ (entry.tag = "Vacant") <=> ~stored(buckets, op'.key)
        /\ op'.calls = (IF stored(buckets, op'.key) THEN 0 ELSE 1)

C7_Supplier == [][C7_SupplierStep]_vars

\* or_insert_with did not call the supplier: the key was stored with another
\* value than the one the supplier would have produced
C7_Witness ==
    /\ op.name = "or_insert_with" /\ op.calls = 0
    /\ op.ret # Some(op.val)

\* ---- C8 -------------------------------------------------------------------
\* C8: between completed calls, num_items is the sum of the lengths of the
\* buckets.
C8_CountIsSumOfLengths == num_items = Len(drain_all(buckets))

\* VacantEntry::insert stored a second pair after entry() resized the table
C8_Witness ==
    /\ op.name = "vacant_insert" /\ op.resized
    /\ num_items = 2

\* ---- C9 -------------------------------------------------------------------
\* C9: no bucket holds two pairs with equal keys, and no key occurs twice in the
\* whole table.
C9_NoDuplicateKeys ==
    LET all == drain_all(buckets)
    IN  \A i, j \in 1..Len(all) : all[i][1] = all[j][1] => i = j

\* two keys share a bucket of a table with more than one bucket, after an insert
\* that replaced the value of one of them
C9_Witness ==
    /\ op.name = "insert" /\ op.ret # None
    /\ Len(buckets) > 1
    /\ \E i \in 1..Len(buckets) : Len(buckets[i]) = 2

\* ---- C10 ------------------------------------------------------------------
\* C10: a borrowing iteration yields the stored pairs bucket by bucket in index
\* order and each bucket in storage order, every pair once and nothing else, so
\* len() items, then reports the end; it leaves the table unchanged, and an
\* iteration that directly follows a finished one yields the same sequence.
C10_Yielded ==
    iter.tag = "RefIter" =>
        /\ Len(yielded) <= Len(drain_all(buckets))
        /\ yielded = SubSeq(drain_all(buckets), 1, Len(yielded))
        /\ (op.name = "next" /\ op.ret = None) =>
               /\ yielded = drain_all(buckets)
               /\ Len(yielded) = len(cur)
               /\ last_run # None => yielded = unwrap(last_run)
        /\ (op.name = "next" /\ op.ret # None) =>
               unwrap(op.ret) = yielded[Len(yielded)]

C10_NextStep ==
    (op'.name = "next") => buckets' = buckets /\ num_items' = num_items

C10_RefIter == [](C10_Yielded) /\ [][C10_NextStep]_vars

\* a second iteration in a row has ended after yielding two pairs from a table
\* whose first bucket is empty
C10_Witness ==
    /\ op.name = "next" /\ op.ret = None
    /\ last_run # None
    /\ Len(yielded) = 2
    /\ Len(buckets) = 4 /\ Len(buckets[1]) = 0

\* ---- C11 ------------------------------------------------------------------
Reverse(s) == [i \in 1..Len(s) |-> s[Len(s) + 1 - i]]

\* the buckets of b in index order, each from its back to its front
RECURSIVE owned_order(_)
owned_order(b) ==
    IF b = <<>> THEN <<>> ELSE Reverse(Head(b)) \o owned_order(Tail(b))

\* the table as it was when it was moved into the live ItemIter
taken == buckets

\* C11: an owning iteration yields the stored pairs bucket by bucket in index
\* order and each bucket from its back, every pair once and nothing else ...
C11_Yielded ==
    iter.tag = "ItemIter" =>
        /\ yielded \o owned_order(iter.map.buckets) = owned_order(taken)
        /\ \A i \in 1..Len(iter.map.buckets) :
               i <= iter.bucket_index => iter.map.buckets[i] = <<>>
        /\ (op.name = "next_owned" /\ op.ret # None) =>
               unwrap(op.ret) = yielded[Len(yielded)]
        /\ (op.name = "next_owned" /\ op.ret = None) =>
               /\ yielded = owned_order(taken)
               /\ Len(yielded) = Len(drain_all(taken))
               /\ {yielded[i] : i \in 1..Len(yielded)} = Pairs(taken)
               /\ \A i \in 1..Len(iter.map.buckets) : iter.map.buckets[i] = <<>>

\* ... and it reaches the end, where every bucket of the owned table is empty
C11_Ends ==
    (iter.tag = "ItemIter") ~>
        (/\ op.name = "next_owned" /\ op.ret = None
         /\ \A i \in 1..Len(iter.map.buckets) : iter.map.buckets[i] = <<>>)

C11_ItemIter == [](C11_Yielded) /\ C11_Ends

\* the iteration has ended after yielding both pairs of one bucket, the pair
\* stored last first
C11_Witness ==
    /\ iter.tag = "ItemIter"
    /\ op.name = "next_owned" /\ op.ret = None
    /\ Len(yielded) = 2
    /\ \E i \in 1..Len(taken) :
           Len(taken[i]) = 2 /\ yielded = <<taken[i][2], taken[i][1]>>

\* ---- C12 ------------------------------------------------------------------
\* the concatenation of the sequences of ss, in order
RECURSIVE concat(_)
concat(ss) == IF ss = <<>> THEN <<>> ELSE Head(ss) \o concat(Tail(ss))

\* what the live inner iterator has not yielded yet
inner_rest == IF inner = None THEN <<>> ELSE unwrap(inner)

\* C12: flatten yields the concatenation of the inner sequences in order,
\* whatever inner sequences are empty, nothing for an empty outer sequence; each
\* next() hands out the next item of the concatenation ...
C12_Yielded ==
    /\ yielded \o inner_rest \o concat(outer) = concat(source)
    /\ (op.name = "flatten_next" /\ op.ret # None) =>
           unwrap(op.ret) = concat(source)[Len(yielded)]
    /\ (op.name = "flatten_next" /\ op.ret = None) =>
           /\ yielded = concat(source)
           /\ outer = <<>> /\ inner_rest = <<>>
    /\ (op.name = "flatten_next" /\ source = <<>>) => op.ret = None /\ yielded = <<>>

\* ... and next() reports the end exactly when all of it has been yielded
C12_NextStep ==
    (op'.name = "flatten_next") =>
        /\ (op'.ret = None) <=> (yielded = concat(source))
        /\ (op'.ret # None) => yielded' = Append(yielded, unwrap(op'.ret))
        /\ (op'.ret = None) => yielded' = yielded

C12_Flatten == [](C12_Yielded) /\ [][C12_NextStep]_vars

\* flatten of an empty inner sequence followed by one of two items has yielded
\* the two items and reported the end
C12_Witness ==
    /\ op.name = "flatten_next" /\ op.ret = None
    /\ Len(source) = 2 /\ source[1] = <<>> /\ Len(source[2]) = 2
    /\ source[2][1] # source[2][2]
    /\ yielded = source[2]

\* ---- C13 ------------------------------------------------------------------
\* C13: insert and entry resize exactly when, at the call, the table has no
\* buckets or num_items > floor(3 * bucket count / 4); the bucket count is then 1
\* if num_items was 0 and 2 * num_items otherwise, and is unchanged when the
\* condition is false. The condition uses num_items before the new item is
\* added and is tested also when the key is already stored.
C13_ResizeStep ==
    (op'.name \in {"insert", "entry"}) =>
        LET due == Len(buckets) = 0 \/ num_items > (3 * Len(buckets)) \div 4
        IN  /\ ~panicked'
            /\ op'.resized = due
            /\ IF due
               THEN Len(buckets') = (IF num_items = 0 THEN 1 ELSE 2 * num_items)
               ELSE Len(buckets') = Len(buckets)

C13_ResizePolicy == [][C13_ResizeStep]_vars

\* an insert of a key that was already stored resized the table to 4 buckets
C13_Witness ==
    /\ op.name = "insert" /\ op.resized /\ op.ret # None
    /\ Len(buckets) = 4 /\ num_items = 2

\* ---- C14 ------------------------------------------------------------------
\* the buckets b with the value of key k replaced by v where it stands
replaced(b, k, v) ==
    [i \in 1..Len(b) |->
        [j \in 1..Len(b[i]) |-> IF b[i][j][1] = k THEN <<k, v>> ELSE b[i][j]]]

\* C14 as claimed: when insert(k, v) finds k already stored, the pair of k is at
\* the same bucket index and in-bucket position after the call as before it, and
\* no other pair has moved.
C14_OriginalStep ==
    (op'.name = "insert" /\ stored(buckets, op'.key)) =>
        \A i \in 1..Len(buckets) : \A j \in 1..Len(buckets[i]) :
            /\ i <= Len(buckets') /\ j <= Len(buckets'[i])
            /\ buckets'[i][j] = replaced(buckets, op'.key, op'.val)[i][j]

C14_Original == [][C14_OriginalStep]_vars

\* C14 as amended: when insert(k, v) finds k already stored and the call does not
\* resize the table, the pair of k is at the same bucket index and in-bucket
\* position after the call as before it, and no other pair has moved.
C14_InPlaceStep ==
    (op'.name = "insert" /\ stored(buckets, op'.key) /\ ~op'.resized) =>
        /\ ~(Len(buckets) = 0 \/ num_items > (3 * Len(buckets)) \div 4)
        /\ buckets' = replaced(buckets, op'.key, op'.val)

C14_InPlace == [][C14_InPlaceStep]_vars

\* an insert that did not resize replaced the value of the first of two pairs
\* that share a bucket
C14_Witness ==
    /\ op.name = "insert" /\ ~op.resized
    /\ op.ret # None /\ op.ret # Some(op.val)
    /\ \E i \in 1..Len(buckets) :
           Len(buckets[i]) = 2 /\ buckets[i][1] = <<op.key, op.val>>

\* ---- C15 ------------------------------------------------------------------
\* C15: get, contains_key and remove never resize: the number of buckets after
\* the call is the number before it, zero buckets stay zero buckets, and remove
\* of a stored key changes only the one bucket that held it.
C15_NoResizeStep ==
    (op'.name \in {"get", "contains_key", "remove"}) =>
        /\ Len(buckets') = Len(buckets)
        /\ \A i \in 1..Len(buckets) :
               (buckets'[i] # buckets[i]) =>
                   /\ op'.name = "remove"
                   /\ \E p \in Pairs(<<buckets[i]>>) : p[1] = op'.key

C15_ReadsAndRemoveKeepBuckets == [][C15_NoResizeStep]_vars

\* remove took the only pair out of a table of 4 buckets, which keeps 4 buckets
C15_Witness ==
    /\ op.name = "remove" /\ op.ret # None
    /\ Len(buckets) = 4 /\ num_items = 0

\* ---- C16 ------------------------------------------------------------------
\* C16: no call panics: the expect on get_bucket_index in insert and entry never
\* fails, since the resize check has made the buckets non-empty before, and every
\* bucket index that insert, get, remove, entry and VacantEntry::insert use is
\* below the bucket count when it is used; the index a Vacant entry records is
\* still below the bucket count when the entry is resolved.
C16_NoPanic ==
    /\ ~panicked
    /\ entry.tag = "Vacant" => in_range(buckets, entry.bucket_index)
    /\ entry.tag = "Occupied" =>
           /\ in_range(buckets, entry.bucket_index)
           /\ in_range(at0(buckets, entry.bucket_index), entry.at)
    /\ op.name \in {"insert", "entry", "or_insert", "or_insert_with", "vacant_insert"} =>
           Len(buckets) > 0

\* VacantEntry::insert pushed to the second bucket, through an entry() call on a
\* table that it resized
C16_Witness ==
    /\ op.name = "vacant_insert" /\ op.resized
    /\ Len(buckets) = 2 /\ Len(buckets[2]) > 0
    /\ hash[op.key] % 2 = 1
    /\ ~panicked

\* ---- C17 ------------------------------------------------------------------
\* C17: every pair (k, v) stored in bucket number b has b = hash(k) mod the
\* current bucket count; so a pair that VacantEntry::insert pushed is in the
\* bucket a later get(k) scans.
C17_Placement ==
    /\ \A i \in 1..Len(buckets) : \A j \in 1..Len(buckets[i]) :
           i - 1 = hash[buckets[i][j][1]] % Len(buckets)
    /\ op.name \in {"or_insert", "or_insert_with", "vacant_insert"} =>
           get(cur, op.key).ret # None

\* or_insert stored its default as the second pair of a table of 4 buckets, in
\* another bucket than the first one
C17_Witness ==
    /\ op.name = "or_insert" /\ op.ret = Some(op.val)
    /\ Len(buckets) = 4 /\ num_items = 2
    /\ hash[op.key] % 4 = 1
    /\ <<op.key, op.val>> \in Pairs(<<buckets[2]>>)

\* ---- C18 ------------------------------------------------------------------
\* C18: over any sequence of insert, remove, get, contains_key and entry calls
\* the number of buckets after a call is at least the number before it, every
\* resize makes it strictly larger, and buckets that are not empty never become
\* empty again.
C18_GrowStep ==
    /\ Len(buckets') >= Len(buckets)
    /\ (op'.name \in {"insert", "entry"} /\ op'.resized) => Len(buckets') > Len(buckets)
    /\ Len(buckets) > 0 => Len(buckets') > 0

C18_BucketsNeverShrink == [][C18_GrowStep]_vars

\* entry() of a stored key resized a table of two items to 4 buckets
C18_Witness ==
    /\ op.name = "entry" /\ op.resized
    /\ entry.tag = "Occupied"
    /\ Len(buckets) = 4 /\ num_items = 2

\* ---- C19 ------------------------------------------------------------------
\* C19: between completed calls num_items <= bucket count, and
\* num_items <= floor(3 * bucket count / 4) + 1 when there is a bucket.
C19_LoadBound ==
    /\ num_items <= Len(buckets)
    /\ Len(buckets) > 0 => num_items <= (3 * Len(buckets)) \div 4 + 1

\* the table is as loaded as the bound allows: 2 items in 2 buckets
C19_Witness ==
    /\ num_items = 2 /\ Len(buckets) = 2
    /\ op.name \in {"insert", "or_insert", "or_insert_with", "vacant_insert"}

\* ---- C20 ------------------------------------------------------------------
\* C20: while a table is drained by the owning iterator, after every
\* completed next() the num_items of the table the iterator owns equals the
\* sum of the lengths of its buckets (0 once the iterator is exhausted).
C20_DrainedCountIsSum ==
    (iter.tag = "ItemIter" /\ op.name = "next_owned") =>
        /\ iter.map.num_items = Len(drain_all(iter.map.buckets))
        /\ op.ret = None => iter.map.num_items = 0

\* next() has taken the only pair: the bucket is empty and num_items is still 1
C20_Witness ==
    /\ iter.tag = "ItemIter"
    /\ op.name = "next_owned" /\ op.ret # None
    /\ Len(drain_all(iter.map.buckets)) = 0
    /\ iter.map.num_items = 1

====
